---------------------------- MODULE Spec2Model ----------------------------
(***************************************************************************)
(* A model of the rasterization core of src/Test2/main.cpp:                *)
(*   generateLines   (lines 28-37)   radial segment generator              *)
(*   bresenhamLine   (lines 41-61)   integer rasterizer                    *)
(*   xiaolinWuLine   (lines 64-195)  antialiased rasterizer                *)
(*                                                                         *)
(* A float is modelled as an exact rational <<n, d>> (d > 0, lowest        *)
(* terms): every arithmetic step of the source is carried out, but without *)
(* IEEE rounding.  An int is modelled as an unbounded integer; the inputs  *)
(* are pixel coordinates, far from the range where int arithmetic wraps.   *)
(***************************************************************************)
EXTENDS Integers, Sequences, FiniteSets, TLC

VARIABLES
    br,     \* the frame of a bresenhamLine call
    wu,     \* the frame of a xiaolinWuLine call
    gl      \* the frame of a generateLines call

vars == <<br, wu, gl>>

(***************************************************************************)
(* Bounds of the model.                                                    *)
(***************************************************************************)
\* integer endpoints of bresenhamLine range over -MaxCoord..MaxCoord
MaxCoord == 3
\* float endpoints of xiaolinWuLine range over k/Denom, k in -MaxNum..MaxNum
MaxNum == 4
Denom == 2
\* generateLines: the number of segments after which the model stops following
\* a loop that does not end on its own
MaxLines == 24

\* the window dimensions main() passes as width and height
SCR_WIDTH == 1280
SCR_HEIGHT == 720
\* the radius main() passes to generateLines
RADIUS == 800

Dims == {<<SCR_WIDTH, SCR_HEIGHT>>, <<1, 1>>}

(***************************************************************************)
(* float arithmetic, exact.                                                *)
(***************************************************************************)
Abs(n) == IF n < 0 THEN -n ELSE n

RECURSIVE Gcd(_, _)
Gcd(a, b) == IF b = 0 THEN a ELSE Gcd(b, a % b)

\* the float n/d (d # 0), in lowest terms with a positive denominator
Rat(n, d) ==
    LET g == Gcd(Abs(n), Abs(d))
        s == IF d < 0 THEN -1 ELSE 1
    IN  <<(s * n) \div g, (s * d) \div g>>

FromInt(n) == <<n, 1>>

RAdd(a, b) == Rat(a[1] * b[2] + b[1] * a[2], a[2] * b[2])
RSub(a, b) == Rat(a[1] * b[2] - b[1] * a[2], a[2] * b[2])
RMul(a, b) == Rat(a[1] * b[1], a[2] * b[2])
RDiv(a, b) == Rat(a[1] * b[2], a[2] * b[1])
RLess(a, b) == a[1] * b[2] < b[1] * a[2]
RLeq(a, b) == a[1] * b[2] <= b[1] * a[2]
RAbs(a) == <<Abs(a[1]), a[2]>>

\* std::floor and std::ceil, as integers (\div rounds towards minus infinity)
Floor(a) == a[1] \div a[2]
Ceil(a) == -((-a[1]) \div a[2])

Half == Rat(1, 2)
One == FromInt(1)
Zero == FromInt(0)

\* (2.0f * (c + 0.5f)) / dim - 1.0f, for a float c and an int dim
Ndc(c, dim) ==
    RSub(RDiv(RMul(FromInt(2), RAdd(c, Half)), FromInt(dim)), One)

(***************************************************************************)
(* bresenhamLine                                                           *)
(***************************************************************************)
BrIdle == [pc |-> "idle"]

\* lines 41-46: the parameters and the locals set before the loop
BresenhamEnter(x0, y0, x1, y1, width, height) ==
    LET dx == Abs(x1 - x0)
        dy == -Abs(y1 - y0)
    IN  [pc |-> "loop",
         arg |-> [x0 |-> x0, y0 |-> y0, x1 |-> x1, y1 |-> y1],
         x0 |-> x0, y0 |-> y0, x1 |-> x1, y1 |-> y1,
         width |-> width, height |-> height,
         dx |-> dx, sx |-> IF x0 < x1 THEN 1 ELSE -1,
         dy |-> dy, sy |-> IF y0 < y1 THEN 1 ELSE -1,
         err |-> dx + dy,
         vertices |-> <<>>]

\* the sample pushed with ndcY divided by width instead of height
BresenhamEmitOneDim(f) ==
    Append(Append(f.vertices, Ndc(FromInt(f.x0), f.width)),
           Ndc(FromInt(f.y0), f.width))

\* lines 49-52: the sample of the current pixel is pushed
BresenhamEmit(f) ==
    Append(Append(f.vertices, Ndc(FromInt(f.x0), f.width)),
           Ndc(FromInt(f.y0), f.height))

\* the step with the second test made an else branch of the first, so that no
\* iteration moves along both axes
BresenhamAdvanceElseIf(f) ==
    LET e2 == 2 * f.err
        stepX == e2 >= f.dy
        stepY == ~stepX /\ e2 <= f.dx
    IN  [f EXCEPT !.err = f.err + (IF stepX THEN f.dy ELSE 0)
                                + (IF stepY THEN f.dx ELSE 0),
                  !.x0 = IF stepX THEN f.x0 + f.sx ELSE f.x0,
                  !.y0 = IF stepY THEN f.y0 + f.sy ELSE f.y0]

\* lines 55-57: the error term decides the step in x, in y, or in both
BresenhamAdvance(f) ==
    LET e2 == 2 * f.err
        stepX == e2 >= f.dy
        stepY == e2 <= f.dx
    IN  [f EXCEPT !.err = f.err + (IF stepX THEN f.dy ELSE 0)
                                + (IF stepY THEN f.dx ELSE 0),
                  !.x0 = IF stepX THEN f.x0 + f.sx ELSE f.x0,
                  !.y0 = IF stepY THEN f.y0 + f.sy ELSE f.y0]

\* line 54: the loop's only exit
BresenhamAtEnd(f) == f.x0 = f.x1 /\ f.y0 = f.y1

\* the loop with the end test made before the sample is pushed
BresenhamIterationPreCheck(f) ==
    IF BresenhamAtEnd(f)
    THEN [f EXCEPT !.pc = "done"]
    ELSE BresenhamAdvance([f EXCEPT !.vertices = BresenhamEmit(f)])

\* lines 48-58: one iteration of while (true)
BresenhamIteration(f) ==
    LET g == [f EXCEPT !.vertices = BresenhamEmit(f)]
    IN  IF BresenhamAtEnd(g)
        THEN [g EXCEPT !.pc = "done"]
        ELSE BresenhamAdvance(g)

BresenhamCall ==
    /\ br.pc = "idle"
    /\ \E x0, y0, x1, y1 \in -MaxCoord..MaxCoord : \E d \in Dims :
         br' = BresenhamEnter(x0, y0, x1, y1, d[1], d[2])
    /\ UNCHANGED <<wu, gl>>

BresenhamStep ==
    /\ br.pc = "loop"
    /\ br' = BresenhamIteration(br)
    /\ UNCHANGED <<wu, gl>>

(***************************************************************************)
(* xiaolinWuLine                                                           *)
(***************************************************************************)
WuIdle == [pc |-> "idle"]

\* line 72: fpart
fpart(x) == RSub(x, FromInt(Floor(x)))

\* line 77: rfpart
rfpart(x) == RSub(One, fpart(x))

\* int(x) for a float x: the fraction is dropped, towards zero
IntCast(a) == IF a[1] >= 0 THEN a[1] \div a[2] ELSE -((-a[1]) \div a[2])

\* lines 111-113: pushVertex
pushVertex(f, ndcX, ndcY, alpha) ==
    [x |-> ndcX, y |-> ndcY, r |-> f.r, g |-> f.g, b |-> f.b, alpha |-> alpha]

\* the pair with the first sample's coverage given to both samples
WuPairSameAlpha(f, col, row, alpha1, alpha2) ==
    IF f.steep
    THEN <<pushVertex(f, Ndc(row, f.width), Ndc(col, f.height), alpha1),
           pushVertex(f, Ndc(RAdd(row, One), f.width), Ndc(col, f.height), alpha1)>>
    ELSE <<pushVertex(f, Ndc(col, f.width), Ndc(row, f.height), alpha1),
           pushVertex(f, Ndc(col, f.width), Ndc(RAdd(row, One), f.height), alpha1)>>

\* the pair emitted without swapping the axes back
WuPairNoUnswap(f, col, row, alpha1, alpha2) ==
    <<pushVertex(f, Ndc(col, f.width), Ndc(row, f.height), alpha1),
      pushVertex(f, Ndc(col, f.width), Ndc(RAdd(row, One), f.height), alpha2)>>

\* lines 115-132, 143-160, 165-192: the two samples of the column col (a float
\* holding a whole number) whose lower pixel is row, with the axes swapped back
\* for a steep line
WuPair(f, col, row, alpha1, alpha2) ==
    IF f.steep
    THEN <<pushVertex(f, Ndc(row, f.width), Ndc(col, f.height), alpha1),
           pushVertex(f, Ndc(RAdd(row, One), f.width), Ndc(col, f.height), alpha2)>>
    ELSE <<pushVertex(f, Ndc(col, f.width), Ndc(row, f.height), alpha1),
           pushVertex(f, Ndc(col, f.width), Ndc(RAdd(row, One), f.height), alpha2)>>

\* line 82
WuSteep(x0, y0, x1, y1) == RLess(RAbs(RSub(x1, x0)), RAbs(RSub(y1, y0)))

\* the working endpoints without the swap of lines 89-92
WuWorkingNoSwap(x0, y0, x1, y1) ==
    IF WuSteep(x0, y0, x1, y1) THEN <<y0, x0, y1, x1>> ELSE <<x0, y0, x1, y1>>

\* lines 84-92: the working endpoints <<X0, Y0, X1, Y1>>
WuWorking(x0, y0, x1, y1) ==
    LET steep == WuSteep(x0, y0, x1, y1)
        a == IF steep THEN <<y0, x0, y1, x1>> ELSE <<x0, y0, x1, y1>>
    IN  IF RLess(a[3], a[1]) THEN <<a[3], a[4], a[1], a[2]>> ELSE a

\* lines 97-99
WuGradient(X0, Y0, X1, Y1) ==
    LET dx == RSub(X1, X0)
        dy == RSub(Y1, Y0)
    IN  IF dx = Zero THEN One ELSE RDiv(dy, dx)

\* lines 64-99: the parameters and the locals set before the first endpoint
WuEnter(x0, y0, x1, y1, width, height) ==
    LET w == WuWorking(x0, y0, x1, y1)
    IN  [pc |-> "first",
         arg |-> [x0 |-> x0, y0 |-> y0, x1 |-> x1, y1 |-> y1],
         width |-> width, height |-> height,
         r |-> One, g |-> Zero, b |-> One,
         steep |-> WuSteep(x0, y0, x1, y1),
         X0 |-> w[1], Y0 |-> w[2], X1 |-> w[3], Y1 |-> w[4],
         gradient |-> WuGradient(w[1], w[2], w[3], w[4]),
         vertices |-> <<>>]

\* line 107
WuFirstGap(X0, xend) == RSub(One, RSub(X0, xend))

\* lines 105-134: the first endpoint
WuFirstEndpoint(f) ==
    LET xend == FromInt(Floor(f.X0))
        yend == RAdd(f.Y0, RMul(f.gradient, RSub(xend, f.X0)))
        xgap == WuFirstGap(f.X0, xend)
        xpxl1 == xend
        ypxl1 == FromInt(Floor(yend))
    IN  [pc |-> "second",
         xend |-> xend, yend |-> yend, xgap |-> xgap,
         xpxl1 |-> xpxl1, ypxl1 |-> ypxl1,
         intery |-> RAdd(yend, f.gradient),
         vertices |-> f.vertices \o WuPair(f, xpxl1, ypxl1,
                                          RMul(rfpart(yend), xgap),
                                          RMul(fpart(yend), xgap))]
        @@ f

\* the gap of the textbook algorithm, fpart(x1 + 0.5)
WuSecondGapRounded(X1, xend) == fpart(RAdd(X1, Half))

\* line 139
WuSecondGap(X1, xend) == RSub(One, RSub(X1, xend))

\* lines 137-160: the second endpoint; lines 166, 180: the sweep's first column
WuSecondEndpoint(f) ==
    LET xend == FromInt(Ceil(f.X1))
        yend == RAdd(f.Y1, RMul(f.gradient, RSub(xend, f.X1)))
        xgap == WuSecondGap(f.X1, xend)
        xpxl2 == xend
        ypxl2 == FromInt(Floor(yend))
    IN  [pc |-> "sweep",
         xend |-> xend, yend |-> yend, xgap |-> xgap,
         xpxl2 |-> xpxl2, ypxl2 |-> ypxl2,
         x |-> IntCast(f.xpxl1) + 1,
         vertices |-> f.vertices \o WuPair(f, xpxl2, ypxl2,
                                          RMul(rfpart(yend), xgap),
                                          RMul(fpart(yend), xgap))]
        @@ f

\* the sweep running up to the second endpoint's column, inclusive
WuSweepMoreInclusive(f) == f.x <= IntCast(f.xpxl2)

\* lines 166, 180: the sweep's test
WuSweepMore(f) == f.x < IntCast(f.xpxl2)

\* lines 165-192: one pass of the for loop, or its exit to the return
WuSweep(f) ==
    IF WuSweepMore(f)
    THEN LET y == f.intery
         IN  [f EXCEPT !.vertices = @ \o WuPair(f, FromInt(f.x), FromInt(Floor(y)),
                                                rfpart(y), fpart(y)),
                       !.intery = RAdd(f.intery, f.gradient),
                       !.x = f.x + 1]
    ELSE [f EXCEPT !.pc = "done"]

\* the frame after its next step
WuAdvance(f) ==
    CASE f.pc = "first" -> WuFirstEndpoint(f)
      [] f.pc = "second" -> WuSecondEndpoint(f)
      [] f.pc = "sweep" -> WuSweep(f)

RECURSIVE WuRun(_)
WuRun(f) == IF f.pc = "done" THEN f.vertices ELSE WuRun(WuAdvance(f))

\* lines 64-195: the vector a call returns
xiaolinWuLine(x0, y0, x1, y1, width, height) ==
    WuRun(WuEnter(x0, y0, x1, y1, width, height))

\* the float endpoints the model calls xiaolinWuLine with
WuCoords == {Rat(k, Denom) : k \in -MaxNum..MaxNum}

WuCall ==
    /\ wu.pc = "idle"
    /\ \E x0, y0, x1, y1 \in WuCoords : \E d \in Dims :
         wu' = WuEnter(x0, y0, x1, y1, d[1], d[2])
    /\ UNCHANGED <<br, gl>>

WuFirst ==
    /\ wu.pc = "first"
    /\ wu' = WuFirstEndpoint(wu)
    /\ UNCHANGED <<br, gl>>

WuSecond ==
    /\ wu.pc = "second"
    /\ wu' = WuSecondEndpoint(wu)
    /\ UNCHANGED <<br, gl>>

WuLoop ==
    /\ wu.pc = "sweep"
    /\ wu' = WuSweep(wu)
    /\ UNCHANGED <<br, gl>>

(***************************************************************************)
(* generateLines                                                           *)
(***************************************************************************)
GlIdle == [pc |-> "idle"]

\* lines 28-30: the parameters, the empty vector and the loop's counter
GenerateEnter(x0, y0, radius, angleStep) ==
    [pc |-> "loop",
     x0 |-> x0, y0 |-> y0, radius |-> radius, angleStep |-> angleStep,
     angle |-> 0,
     lines |-> <<>>]

\* lines 31-34: the segment of one angle.  Its far end is
\* (x0 + radius*cos(angle), y0 + radius*sin(angle)); cos and sin are not
\* evaluated, the segment records the angle and the radius that fix them.
GenerateLine(f) ==
    [x0 |-> FromInt(f.x0), y0 |-> FromInt(f.y0),
     radius |-> f.radius, angle |-> f.angle]

\* line 30: the loop's test
GenerateMore(f) == f.angle < 360

\* lines 30-36: one pass of the for loop, or its exit to the return.  No
\* statement of the function tests angleStep.
GenerateIteration(f) ==
    IF GenerateMore(f)
    THEN [f EXCEPT !.lines = Append(f.lines, GenerateLine(f)),
                   !.angle = f.angle + f.angleStep]
    ELSE [f EXCEPT !.pc = "done"]

\* the steps the model calls generateLines with; main() passes 15
AngleSteps == {-15, 0, 15, 90, 400}

GenerateCall ==
    /\ gl.pc = "idle"
    /\ \E x0 \in {0, SCR_WIDTH \div 2}, y0 \in {0, SCR_HEIGHT \div 2},
          radius \in {1, RADIUS}, angleStep \in AngleSteps :
         gl' = GenerateEnter(x0, y0, radius, angleStep)
    /\ UNCHANGED <<br, wu>>

\* a loop that never leaves is followed for MaxLines segments
GenerateStep ==
    /\ gl.pc = "loop"
    /\ Len(gl.lines) < MaxLines \/ ~GenerateMore(gl)
    /\ gl' = GenerateIteration(gl)
    /\ UNCHANGED <<br, wu>>


Init ==
    /\ br = BrIdle
    /\ wu = WuIdle
    /\ gl = GlIdle

NextB == BresenhamCall \/ BresenhamStep

SpecB == Init /\ [][NextB]_vars

NextW == WuCall \/ WuFirst \/ WuSecond \/ WuLoop

SpecW == Init /\ [][NextW]_vars

NextG == GenerateCall \/ GenerateStep

SpecG == Init /\ [][NextG]_vars

Next == NextB \/ NextW \/ NextG

Spec == Init /\ [][Next]_vars

(***************************************************************************)
(* Properties of bresenhamLine.                                            *)
(***************************************************************************)
Max(a, b) == IF a >= b THEN a ELSE b

\* ((2*(c+0.5))/dim - 1, as one fraction
Normalized(c, dim) == Rat(2 * c + 1 - dim, dim)

BrSamples == Len(br.vertices) \div 2
BrSampleX(i) == br.vertices[2 * i - 1]
BrSampleY(i) == br.vertices[2 * i]
BrLength == Max(Abs(br.arg.x1 - br.arg.x0), Abs(br.arg.y1 - br.arg.y0))

\* C1: the returned sequence is non-empty, its first sample is the normalized
\* position of (x0,y0) and its last sample the normalized position of (x1,y1).
C1_EndpointsEmitted ==
    br.pc = "done" =>
        /\ BrSamples >= 1
        /\ Len(br.vertices) = 2 * BrSamples
        /\ BrSampleX(1) = Normalized(br.arg.x0, br.width)
        /\ BrSampleY(1) = Normalized(br.arg.y0, br.height)
        /\ BrSampleX(BrSamples) = Normalized(br.arg.x1, br.width)
        /\ BrSampleY(BrSamples) = Normalized(br.arg.y1, br.height)

C1_Witness ==
    /\ br.pc = "done"
    /\ br.arg.x0 > br.arg.x1
    /\ br.arg.y0 < br.arg.y1
    /\ br.width # br.height
    /\ BrSamples > 2

\* C2: the stepping loop terminates, right after emitting the end pixel, with
\* exactly max(|x1-x0|,|y1-y0|)+1 samples; a segment of one point yields the
\* one sample of that point.  Every iteration pushes one sample, so the bound
\* on the samples of a frame still in the loop bounds the iterations.
C2_TerminatesInclusive ==
    /\ br.pc = "loop" =>
            /\ BrSamples <= BrLength
            /\ BrSamples = Max(Abs(br.x0 - br.arg.x0), Abs(br.y0 - br.arg.y0))
    /\ br.pc = "done" =>
            /\ Len(br.vertices) = 2 * (BrLength + 1)
            /\ br.x0 = br.arg.x1 /\ br.y0 = br.arg.y1
            /\ BrSampleX(BrSamples) = Normalized(br.x0, br.width)
            /\ BrSampleY(BrSamples) = Normalized(br.y0, br.height)
    /\ br.pc = "done" /\ br.arg.x0 = br.arg.x1 /\ br.arg.y0 = br.arg.y1 =>
            br.vertices = <<Normalized(br.arg.x0, br.width),
                            Normalized(br.arg.y0, br.height)>>

C2_Witness ==
    /\ br.pc = "done"
    /\ Abs(br.arg.x1 - br.arg.x0) > Abs(br.arg.y1 - br.arg.y0)
    /\ br.arg.y1 # br.arg.y0
    /\ BrSamples = BrLength + 1

\* twice the distance of the current pixel from the ideal segment, times the
\* segment's extent along its major axis
BrDeviation ==
    2 * Abs((br.x0 - br.arg.x0) * (br.arg.y1 - br.arg.y0)
            - (br.y0 - br.arg.y0) * (br.arg.x1 - br.arg.x0))

\* the current pixel lies within half a pixel of the ideal segment along the
\* minor axis, and the error term is the integer that measures it
BrOnLine ==
    br.pc \in {"loop", "done"} =>
        /\ BrDeviation <= BrLength
        /\ br.err = br.dx + br.dy + Abs(br.x0 - br.arg.x0) * br.dy
                                  + Abs(br.y0 - br.arg.y0) * br.dx

\* a step of the loop moves to an 8-connected pixel, towards the end pixel
BrConnected ==
    br.pc = "loop" /\ br'.pc = "loop" =>
        /\ br'.x0 - br.x0 \in {0, br.sx}
        /\ br'.y0 - br.y0 \in {0, br.sy}
        /\ br'.x0 # br.x0 \/ br'.y0 # br.y0
        /\ Abs(br.arg.x1 - br'.x0) <= Abs(br.arg.x1 - br.x0)
        /\ Abs(br.arg.y1 - br'.y0) <= Abs(br.arg.y1 - br.y0)

\* C11: every visited pixel is 8-connected to the previous one (x changes by 0
\* or sx, y by 0 or sy, not both 0, never past the end coordinate) and stays
\* within half a pixel of the ideal segment along the minor axis:
\* 2*|(x-x0)*(y1-y0) - (y-y0)*(x1-x0)| <= max(|x1-x0|,|y1-y0|).
C11_ConnectedAndClose == [](BrOnLine) /\ [][BrConnected]_vars

C11_Witness ==
    /\ br.pc = "loop"
    /\ BrSamples >= 2
    /\ br.x0 # br.arg.x0 /\ br.y0 # br.arg.y0
    /\ br.dx # -br.dy
    /\ BrDeviation = BrLength

(***************************************************************************)
(* Properties of xiaolinWuLine.                                            *)
(***************************************************************************)
IsWhole(a) == a[2] = 1
Frac(a) == RSub(a, FromInt(Floor(a)))
RMin(a, b) == IF RLeq(a, b) THEN a ELSE b
RMax(a, b) == IF RLeq(a, b) THEN b ELSE a

\* the frame has passed the setup, so its locals exist
WuStarted == wu.pc \in {"first", "second", "sweep", "done"}
WuPairs == Len(wu.vertices) \div 2
WuLower(i) == wu.vertices[2 * i - 1]
WuUpper(i) == wu.vertices[2 * i]

\* steepness and the primary-axis extent, read off the call's arguments
ArgSteep ==
    RLess(RAbs(RSub(wu.arg.x1, wu.arg.x0)), RAbs(RSub(wu.arg.y1, wu.arg.y0)))
ArgPrimaryLo ==
    IF ArgSteep THEN RMin(wu.arg.y0, wu.arg.y1) ELSE RMin(wu.arg.x0, wu.arg.x1)
ArgPrimaryHi ==
    IF ArgSteep THEN RMax(wu.arg.y0, wu.arg.y1) ELSE RMax(wu.arg.x0, wu.arg.x1)

\* the primary-axis column of the i-th pair: the two endpoint columns, then the
\* columns strictly between them in increasing order
WuColumn(i) ==
    IF i = 1 THEN Floor(ArgPrimaryLo)
    ELSE IF i = 2 THEN Ceil(ArgPrimaryHi)
    ELSE Floor(ArgPrimaryLo) + (i - 2)

\* the secondary-axis intersection of the line with the i-th pair's column
WuIntersection(i) ==
    IF i = 2
    THEN RAdd(wu.Y1, RMul(wu.gradient, RSub(FromInt(WuColumn(2)), wu.X1)))
    ELSE RAdd(wu.Y0, RMul(wu.gradient, RSub(FromInt(WuColumn(i)), wu.X0)))

C4_CoverageInUnitInterval ==
    WuStarted =>
        \A k \in 1..Len(wu.vertices) :
            RLeq(Zero, wu.vertices[k].alpha) /\ RLeq(wu.vertices[k].alpha, One)

\* the set of (position, coverage) samples of a vector of vertices
Samples(v) == {<<v[k].x, v[k].y, v[k].alpha>> : k \in 1..Len(v)}

\* C5: rasterizing (A,B) and (B,A) yields the same set of (position, coverage)
\* samples.
C5_Symmetry ==
    wu.pc = "done" =>
        Samples(wu.vertices) =
            Samples(xiaolinWuLine(wu.arg.x1, wu.arg.y1, wu.arg.x0, wu.arg.y0,
                                  wu.width, wu.height))

C5_Witness ==
    /\ wu.pc = "done"
    /\ RLess(wu.arg.x1, wu.arg.x0)
    /\ ~ArgSteep
    /\ wu.arg.y0 # wu.arg.y1
    /\ ~IsWhole(wu.arg.x0)
    /\ WuPairs > 2

\* a perfectly horizontal segment with whole-numbered endpoints
Horizontal ==
    /\ IsWhole(wu.arg.x0) /\ IsWhole(wu.arg.y0)
    /\ IsWhole(wu.arg.x1) /\ IsWhole(wu.arg.y1)
    /\ wu.arg.y0 = wu.arg.y1
    /\ wu.arg.x0 # wu.arg.x1

\* C6: a horizontal segment with integer endpoints is non-steep with gradient
\* 0, both endpoint gaps are 1, and every integer column from min(x0,x1) to
\* max(x0,x1) gets exactly one pair: coverage 1 on row y0, 0 on row y0+1.
C6_HorizontalLine ==
    WuStarted /\ Horizontal =>
        LET lo == Floor(RMin(wu.arg.x0, wu.arg.x1))
            hi == Floor(RMax(wu.arg.x0, wu.arg.x1))
            row == Floor(wu.arg.y0)
            at(c) == {i \in 1..WuPairs : WuLower(i).x = Normalized(c, wu.width)
                                          \/ WuUpper(i).x = Normalized(c, wu.width)}
        IN  /\ ~wu.steep
            /\ wu.gradient = Zero
            /\ wu.pc \in {"second", "sweep", "done"} => wu.xgap = One
            /\ \A k \in 1..Len(wu.vertices) :
                   wu.vertices[k].y \in {Normalized(row, wu.height),
                                         Normalized(row + 1, wu.height)}
            /\ wu.pc = "done" =>
                   /\ WuPairs = hi - lo + 1
                   /\ \A c \in lo..hi :
                          /\ Cardinality(at(c)) = 1
                          /\ \A i \in at(c) :
                                 /\ WuLower(i).x = Normalized(c, wu.width)
                                 /\ WuLower(i).y = Normalized(row, wu.height)
                                 /\ WuLower(i).alpha = One
                                 /\ WuUpper(i).x = Normalized(c, wu.width)
                                 /\ WuUpper(i).y = Normalized(row + 1, wu.height)
                                 /\ WuUpper(i).alpha = Zero

C6_Witness ==
    /\ wu.pc = "done"
    /\ Horizontal
    /\ RSub(wu.arg.x0, wu.arg.x1) = FromInt(3)
    /\ WuPairs = 4

\* the primary-axis coordinate of a sample, as emitted
WuPrimary(v) == IF ArgSteep THEN v.y ELSE v.x
WuPrimaryDim == IF ArgSteep THEN wu.height ELSE wu.width

\* C7: the vector holds the first-endpoint pair at column floor(X0), the
\* second-endpoint pair at column ceil(X1), then one pair for each column
\* strictly between them in increasing order: 4 + 2*max(0, ceil(X1)-floor(X0)-1)
\* samples in all, and four for a segment of length zero.
C7_SampleCount ==
    WuStarted =>
        LET lo == Floor(ArgPrimaryLo)
            hi == Ceil(ArgPrimaryHi)
        IN  /\ Len(wu.vertices) = 2 * WuPairs
            /\ wu.pc = "second" => WuPairs = 1
            /\ wu.pc = "sweep" => WuPairs >= 2
            /\ wu.pc = "done" => Len(wu.vertices) = 4 + 2 * Max(0, hi - lo - 1)
            /\ wu.pc = "done" /\ wu.arg.x0 = wu.arg.x1 /\ wu.arg.y0 = wu.arg.y1 =>
                   Len(wu.vertices) = 4
            /\ \A i \in 1..WuPairs :
                   /\ WuPrimary(WuLower(i)) = Normalized(WuColumn(i), WuPrimaryDim)
                   /\ WuPrimary(WuUpper(i)) = Normalized(WuColumn(i), WuPrimaryDim)
                   /\ i > 2 => lo < WuColumn(i) /\ WuColumn(i) < hi

C7_Witness ==
    /\ wu.pc = "done"
    /\ ArgSteep
    /\ ~IsWhole(ArgPrimaryLo)
    /\ ~IsWhole(ArgPrimaryHi)
    /\ Len(wu.vertices) = 10

\* C9: each endpoint pair has lower coverage (1 - frac(yend)) * gap and upper
\* coverage frac(yend) * gap, with gap = 1 - frac(the endpoint's own primary
\* coordinate) and frac(x) = x - floor(x).
C9_EndpointCoverage ==
    WuStarted =>
        \A i \in 1..WuPairs :
            i <= 2 =>
                LET own == IF i = 1 THEN ArgPrimaryLo ELSE ArgPrimaryHi
                    gap == RSub(One, Frac(own))
                    yend == WuIntersection(i)
                IN  /\ WuLower(i).alpha = RMul(RSub(One, Frac(yend)), gap)
                    /\ WuUpper(i).alpha = RMul(Frac(yend), gap)

\* C10: the two samples of a pair of a steep line share the row of the walked
\* column and lie in the horizontally adjacent pixels floor(v), floor(v)+1; those
\* of a non-steep line share the column and lie in the vertically adjacent
\* pixels floor(v), floor(v)+1; x is normalized by width and y by height.
C10_AxisUnswap ==
    WuStarted =>
        \A i \in 1..WuPairs :
            LET c == WuColumn(i)
                fl == Floor(WuIntersection(i))
            IN  IF ArgSteep
                THEN /\ WuLower(i).y = Normalized(c, wu.height)
                     /\ WuUpper(i).y = Normalized(c, wu.height)
                     /\ WuLower(i).x = Normalized(fl, wu.width)
                     /\ WuUpper(i).x = Normalized(fl + 1, wu.width)
                ELSE /\ WuLower(i).x = Normalized(c, wu.width)
                     /\ WuUpper(i).x = Normalized(c, wu.width)
                     /\ WuLower(i).y = Normalized(fl, wu.height)
                     /\ WuUpper(i).y = Normalized(fl + 1, wu.height)

C10_Witness ==
    /\ wu.pc = "done"
    /\ ArgSteep
    /\ wu.width # wu.height
    /\ WuPairs > 3
    /\ WuLower(3).x # WuLower(4).x

(***************************************************************************)
(* Properties of generateLines.                                            *)
(***************************************************************************)
\* C8: a call with an angular step that is zero or negative ends in an error
\* before any segment is produced: it neither loops nor returns segments.
C8_FailFast ==
    gl.pc # "idle" /\ gl.angleStep <= 0 =>
        /\ gl.lines = <<>>
        /\ gl.pc # "done"

=============================================================================



